---- MODULE Spec2Model ----
(***************************************************************************)
(* Gamma IIR filter cascade (IIR1, IIR2, IIRSeries, IIRButter, IIRCheby).  *)
(*                                                                         *)
(* Numbers.  A sample or coefficient (C++ float/double) is modelled as an  *)
(* extended rational <<n, d>> in lowest terms with d >= 0:                 *)
(*     d > 0          the finite value n/d                                 *)
(*     <<1,0>>, <<-1,0>>   +infinity, -infinity                            *)
(*     <<0,0>>        NaN                                                  *)
(* Arithmetic on finite values is exact (rounding of the binary formats is *)
(* not modelled); the non-finite values follow IEEE-754 (x/0, inf-inf,     *)
(* 0*inf, NaN propagation).  The sign of a zero is not modelled: 1/0 is    *)
(* +infinity.                                                              *)
(*                                                                         *)
(* Transcendental library calls (cos, sin, tan, pow, sqrt, asinh, sinh,    *)
(* cosh) are tables of rational approximations over the arguments the      *)
(* bounded inputs produce.                                                 *)
(***************************************************************************)
EXTENDS Integers, Sequences, FiniteSets, TLC

\* ------------------------------------------------------------- bounds
\* Largest filter order requested of the constructor or of order(v).
MaxOrder == 3
\* Largest number of operator() calls since the delay registers were last zero.
MaxProc == 3
\* Largest denominator of a coefficient or delay value operator() is run on.
MaxDen == 100

\* ------------------------------------------------- extended rationals
Abs(n) == IF n < 0 THEN -n ELSE n

Sgn(n) == IF n < 0 THEN -1 ELSE IF n > 0 THEN 1 ELSE 0

RECURSIVE Gcd(_, _)
Gcd(a, b) == IF b = 0 THEN a ELSE Gcd(b, a % b)

\* <<n, d>> brought to lowest terms with a non-negative denominator.
Norm(n, d) ==
    LET s == IF d < 0 THEN -1 ELSE 1
        g == Gcd(Abs(n), Abs(d))
    IN  IF g = 0 THEN <<0, 0>> ELSE <<(s * n) \div g, (s * d) \div g>>

Q(n, d) == Norm(n, d)

F0 == <<0, 1>>

F1 == <<1, 1>>

NaN == <<0, 0>>

IsNaN(a) == a[1] = 0 /\ a[2] = 0

IsInf(a) == a[1] # 0 /\ a[2] = 0

IsFinite(a) == a[2] > 0

Neg(a) == <<-a[1], a[2]>>

\* a * b; 0 * inf and NaN * x are NaN.
Mul(a, b) ==
    IF a[2] = 0 \/ b[2] = 0
    THEN <<Sgn(a[1]) * Sgn(b[1]), 0>>
    ELSE IF a[1] = 0 \/ b[1] = 0 THEN F0
    ELSE LET g1 == Gcd(Abs(a[1]), b[2])
             g2 == Gcd(Abs(b[1]), a[2])
         IN  <<(a[1] \div g1) * (b[1] \div g2), (a[2] \div g2) * (b[2] \div g1)>>

\* a + b; inf + (-inf) and NaN + x are NaN.
Add(a, b) ==
    IF IsNaN(a) \/ IsNaN(b) THEN NaN
    ELSE IF IsInf(a) /\ IsInf(b) THEN (IF a[1] = b[1] THEN a ELSE NaN)
    ELSE IF IsInf(a) THEN a
    ELSE IF IsInf(b) THEN b
    ELSE LET g == Gcd(a[2], b[2])
             l == (a[2] \div g) * b[2]
         IN  Norm(a[1] * (b[2] \div g) + b[1] * (a[2] \div g), l)

Sub(a, b) == Add(a, Neg(b))

\* 1 / a; 1/0 is +inf, 1/inf is 0.
Recip(a) ==
    IF a[1] = 0 THEN (IF a[2] = 0 THEN NaN ELSE <<1, 0>>)
    ELSE IF a[1] < 0 THEN <<-a[2], -a[1]>>
    ELSE <<a[2], a[1]>>

Div(a, b) == Mul(a, Recip(b))

\* a == b in C++: FALSE as soon as one side is NaN.
EqF(a, b) == ~IsNaN(a) /\ ~IsNaN(b) /\ a = b

\* a < b in C++: FALSE as soon as one side is NaN.
LtF(a, b) ==
    /\ ~IsNaN(a)
    /\ ~IsNaN(b)
    /\ IF IsInf(a) \/ IsInf(b)
       THEN a # b /\ (a = <<-1, 0>> \/ b = <<1, 0>>)
       ELSE a[1] * b[2] < b[1] * a[2]

\* ------------------------------------------------ Complex<T> (Types.h)
Cx(re, im) == [r |-> re, i |-> im]

\* Complex::operator*=
CMul(a, b) ==
    Cx(Sub(Mul(a.r, b.r), Mul(a.i, b.i)), Add(Mul(a.r, b.i), Mul(a.i, b.r)))

\* Complex::magSqr
MagSqr(a) == Add(Mul(a.r, a.r), Mul(a.i, a.i))

\* Complex::operator/= : a * conj(b) / |b|^2
CDiv(a, b) ==
    LET m == MagSqr(b)
    IN  Cx(Div(Add(Mul(a.r, b.r), Mul(a.i, b.i)), m),
           Div(Sub(Mul(a.i, b.r), Mul(a.r, b.i)), m))

\* Complex::fromPhase(t * pi) = (cos(t*pi), sin(t*pi)), t a rational.  The
\* entries are points of the unit circle with rational coordinates,
\* within 0.03 of the exact values; a non-finite phase gives NaN.
FromPhase(t) ==
    IF ~IsFinite(t) THEN Cx(NaN, NaN)
    ELSE CASE t = Q(1, 1) -> Cx(Q(-1, 1), F0)
           [] t = Q(1, 2) -> Cx(F0, F1)
           [] t = Q(3, 4) -> Cx(Q(-20, 29), Q(21, 29))
           [] t = Q(1, 3) -> Cx(Q(8, 17), Q(15, 17))
           [] t = Q(2, 3) -> Cx(Q(-8, 17), Q(15, 17))
           [] t = Q(1, 4) -> Cx(Q(120, 169), Q(119, 169))
           [] t = Q(5, 8) -> Cx(Q(-5, 13), Q(12, 13))
           [] t = Q(1, 5) -> Cx(Q(4, 5), Q(3, 5))
           [] t = Q(3, 5) -> Cx(Q(-7, 25), Q(24, 25))

\* ------------------------------------------------------ libm tables
\* tan(M_PI * f) for a cutoff f given as a rational: tan(0) = 0,
\* tan(0.3524 pi) = 2.000, tan(pi/4) = 1, tan(3 pi/4) = -1.
TanPi(f) ==
    CASE f = Q(0, 1) -> F0
      [] f = Q(1, 4) -> F1
      [] f = Q(881, 2500) -> Q(2, 1)
      [] f = Q(3, 4) -> Q(-1, 1)

\* ::pow(10., x): 10^0.1 = 1.259, 10^0.3 = 1.995, 10^-0.05 = 0.891,
\* 10^-0.15 = 0.708.
Pow10(x) ==
    CASE x = Q(0, 1) -> F1
      [] x = Q(1, 10) -> Q(5, 4)
      [] x = Q(3, 10) -> Q(2, 1)
      [] x = Q(-1, 20) -> Q(8, 9)
      [] x = Q(-3, 20) -> Q(5, 7)

\* sqrt(y): NaN for y < 0 and for NaN.
Sqrt(y) ==
    IF IsNaN(y) \/ LtF(y, F0) THEN NaN
    ELSE CASE y = Q(0, 1) -> F0
           [] y = Q(1, 4) -> Q(1, 2)
           [] y = Q(1, 1) -> F1

\* ::asinh(y): asinh(1) = 0.881, asinh(2) = 1.444, asinh(inf) = inf.
Asinh(y) ==
    IF ~IsFinite(y) THEN y
    ELSE CASE y = Q(1, 1) -> Q(7, 8)
           [] y = Q(2, 1) -> Q(13, 9)

\* ::sinh(x), x = asinh(1)/n or asinh(2)/n, n = 1..5; sinh(inf) = inf.
\* Entries are within 0.03 of the exact values.
Sinh(x) ==
    IF ~IsFinite(x) THEN x
    ELSE CASE x = Q(7, 8) -> Q(1, 1)
           [] x = Q(7, 16) -> Q(56, 125)
           [] x = Q(7, 24) -> Q(19, 64)
           [] x = Q(7, 32) -> Q(11, 50)
           [] x = Q(7, 40) -> Q(5, 28)
           [] x = Q(13, 9) -> Q(2, 1)
           [] x = Q(13, 18) -> Q(99, 128)
           [] x = Q(13, 27) -> Q(1, 2)
           [] x = Q(13, 36) -> Q(3, 8)
           [] x = Q(13, 45) -> Q(5, 17)

\* ::cosh(x) over the same arguments; cosh(inf) = cosh(-inf) = inf.
\* Entries are within 0.04 of the exact values.
Cosh(x) ==
    IF IsNaN(x) THEN NaN
    ELSE IF IsInf(x) THEN <<1, 0>>
    ELSE CASE x = Q(7, 8) -> Q(7, 5)
           [] x = Q(7, 16) -> Q(16, 15)
           [] x = Q(7, 24) -> Q(16, 15)
           [] x = Q(7, 32) -> Q(1, 1)
           [] x = Q(7, 40) -> Q(25, 24)
           [] x = Q(13, 9) -> Q(9, 4)
           [] x = Q(13, 18) -> Q(141, 112)
           [] x = Q(13, 27) -> Q(17, 15)
           [] x = Q(13, 36) -> Q(87, 80)
           [] x = Q(13, 45) -> Q(35, 34)

\* ------------------------------------------------------------- IIR1
\* IIR1::IIR1
NewIIR1 == [d1 |-> F0, ci0 |-> F0, ci1 |-> F0, co1 |-> F0]

\* IIR1::operator(): the section after the call and the value returned.
IIR1Call(f, i0) ==
    LET d0 == Sub(i0, Mul(f.d1, f.co1))
        o0 == Add(Mul(d0, f.ci0), Mul(f.d1, f.ci1))
    IN  [f |-> [f EXCEPT !.d1 = d0], o |-> o0]

\* Mutant: coefs() also clears the delay register.
IIR1Coefs_ClearsDelay(f, vi0, vi1, vo1) ==
    [f EXCEPT !.ci0 = vi0, !.ci1 = vi1, !.co1 = vo1, !.d1 = F0]

\* IIR1::coefs
IIR1Coefs(f, vi0, vi1, vo1) == [f EXCEPT !.ci0 = vi0, !.ci1 = vi1, !.co1 = vo1]

\* IIR1::zero
IIR1Zero(f) == [f EXCEPT !.d1 = F0]

\* ------------------------------------------------------------- IIR2
\* IIR2::IIR2
NewIIR2 ==
    [d1 |-> F0, d2 |-> F0, ci0 |-> F0, ci1 |-> F0, ci2 |-> F0, co1 |-> F0, co2 |-> F0]

\* Mutant: the delay shift written d1=d0; d2=d1.
IIR2Call_ShiftSwapped(f, i0) ==
    LET d0 == Sub(Sub(i0, Mul(f.d1, f.co1)), Mul(f.d2, f.co2))
        o0 == Add(Add(Mul(d0, f.ci0), Mul(f.d1, f.ci1)), Mul(f.d2, f.ci2))
    IN  [f |-> [f EXCEPT !.d2 = d0, !.d1 = d0], o |-> o0]

\* IIR2::operator(): the section after the call and the value returned.
IIR2Call(f, i0) ==
    LET d0 == Sub(Sub(i0, Mul(f.d1, f.co1)), Mul(f.d2, f.co2))
        o0 == Add(Add(Mul(d0, f.ci0), Mul(f.d1, f.ci1)), Mul(f.d2, f.ci2))
    IN  [f |-> [f EXCEPT !.d2 = f.d1, !.d1 = d0], o |-> o0]

\* IIR2::coefs
IIR2Coefs(f, vi0, vi1, vi2, vo1, vo2) ==
    [f EXCEPT !.ci0 = vi0, !.ci1 = vi1, !.ci2 = vi2, !.co1 = vo1, !.co2 = vo2]

\* IIR2::zero
IIR2Zero(f) == [f EXCEPT !.d1 = F0, !.d2 = F0]

\* ------------------------------------------- IIRSeries: pure helpers
\* Mutant: the map z = (1+s)/(1-s) without the reflection p.r = -p.r.
Bilinear_NoFlip(p) ==
    CDiv(Cx(Add(p.r, F1), p.i), Cx(Sub(F1, p.r), Neg(p.i)))

\* IIRSeries::bilinear
Bilinear(p) ==
    LET pr  == Neg(p.r)
        den == Cx(Sub(F1, pr), Neg(p.i))
    IN  CDiv(Cx(Add(pr, F1), p.i), den)

\* Mutant: convertLP(IIR1) without the reflection pr = -pr.
ConvertLP1_NoFlip(f, pr0) ==
    LET pr == Div(Sub(pr0, F1), Add(pr0, F1))
        ci == Mul(Add(F1, pr), Q(1, 2))
    IN  IIR1Coefs(f, ci, ci, pr)

\* IIRSeries::convertLP(IIR1&, Tp)
ConvertLP1(f, pr0) ==
    LET pr1 == Neg(pr0)
        pr  == Div(Sub(pr1, F1), Add(pr1, F1))
        ci  == Mul(Add(F1, pr), Q(1, 2))
    IN  IIR1Coefs(f, ci, ci, pr)

\* IIRSeries::convertLP(IIR2&, const Complex&)
ConvertLP2(f, p) ==
    LET co2 == Div(F1, MagSqr(p))
        co1 == Mul(Mul(Q(-2, 1), p.r), co2)
        ci  == Mul(Add(Add(F1, co1), co2), Q(1, 4))
    IN  IIR2Coefs(f, ci, Mul(ci, Q(2, 1)), ci, co1, co2)

\* IIRSeries::odd, numPoles, numIIR2 for an order n
Odd(n) == n % 2

NumPoles(n) == (n + 1) \div 2

NumIIR2(n) == n \div 2

\* ------------------------------------------------------------ inputs
\* Orders given to the constructors and to order(v).
Orders == 0 .. MaxOrder

\* Cutoffs given to the constructors, freq and set: 0.25 and 0.3524 lie in
\* the documented range [0, 0.5); 0 and 0.75 are degenerate.
Cutoffs == {Q(0, 1), Q(1, 4), Q(881, 2500), Q(3, 4)}

\* Ripples in dB given to the IIRCheby constructor and to set: 1 and 3 are
\* in the documented range (> 0); 0 is degenerate.
Ripples == {Q(0, 1), Q(1, 1), Q(3, 1)}

\* Samples given to operator().
Samples == {Q(0, 1), Q(1, 1)}

\* -------------------------------------------------------------- state
VARIABLES
    family,     \* "Butter" (IIRButter) or "Cheby" (IIRCheby): the object's class
    mOrder,     \* IIRSeries::mOrder
    mPoles,     \* IIRSeries::mPoles: [alloc, a]; alloc = FALSE is the null pointer
    mIIR1,      \* IIRSeries::mIIR1:  [alloc, a], a of length 0 or 1
    mIIR2,      \* IIRSeries::mIIR2:  [alloc, a]
    mRipple,    \* IIRCheby::mRipple
    mWarpR,     \* IIRCheby::mWarpR
    mWarpI,     \* IIRCheby::mWarpI
    lastOp,     \* history: the last call, its arguments, its return value and
                \* the number of new / delete expressions it executed
    lastCfg,    \* history: the last call that configured the sections
                \* ("ctor", "order" when it reallocated, "freq", "set")
    nProc,      \* history: operator() calls since the delays were last zero
    cfg,        \* the context running order(): [pc, v, news, dels], pc the
                \* source line it executes next ("idle": not in a call)
    aud,        \* the context running operator(): [pc, i, o0, x], pc the
                \* source line it executes next, i and o0 the call's locals
    fault,      \* history: the section access of the current operator()
                \* call that found no section, or NoFault
    overlap     \* history: a step of order() ran during the current
                \* operator() call, or the call began inside an order() call

vars ==
    <<family, mOrder, mPoles, mIIR1, mIIR2, mRipple, mWarpR, mWarpI,
      lastOp, lastCfg, nProc, cfg, aud, fault, overlap>>

\* The variables of the two-context model (SpecConc).
conc == <<cfg, aud, fault, overlap>>

CfgIdle == [pc |-> "idle", v |-> 0, news |-> 0, dels |-> 0]

AudIdle == [pc |-> "idle", i |-> 0, o0 |-> F0, x |-> F0]

NoFault == [what |-> "none", i |-> 0, pc |-> "idle", order |-> 0]

\* The object's fields.
fields == <<family, mOrder, mPoles, mIIR1, mIIR2, mRipple, mWarpR, mWarpI>>

Null == [alloc |-> FALSE, a |-> <<>>]

\* new T[n], each element default-constructed as e.
NewArray(n, e) == [alloc |-> TRUE, a |-> [k \in 1 .. n |-> e]]

\* The object as a record.
Self ==
    [family |-> family, mOrder |-> mOrder, mPoles |-> mPoles, mIIR1 |-> mIIR1,
     mIIR2 |-> mIIR2, mRipple |-> mRipple, mWarpR |-> mWarpR, mWarpI |-> mWarpI]

\* The object's fields become those of the record t.
Become(t) ==
    /\ family' = t.family
    /\ mOrder' = t.mOrder
    /\ mPoles' = t.mPoles
    /\ mIIR1' = t.mIIR1
    /\ mIIR2' = t.mIIR2
    /\ mRipple' = t.mRipple
    /\ mWarpR' = t.mWarpR
    /\ mWarpI' = t.mWarpI

\* ------------------------------------------------- IIRSeries methods
\* IIRSeries::clearMem
ClearMem(s) == [s EXCEPT !.mIIR1 = Null, !.mIIR2 = Null, !.mPoles = Null]

\* The number of delete expressions clearMem executes on s.
ClearMemDeletes(s) ==
    (IF s.mIIR1.alloc THEN 1 ELSE 0) + (IF s.mIIR2.alloc THEN 1 ELSE 0)
        + (IF s.mPoles.alloc THEN 1 ELSE 0)

\* The pole loop of order(): mPoles[i] = p0; p0 *= p1, for i < n.
RECURSIVE PoleSeq(_, _, _)
PoleSeq(p0, p1, n) ==
    IF n = 0 THEN <<>> ELSE <<p0>> \o PoleSeq(CMul(p0, p1), p1, n - 1)

\* The prototype poles of order(): p0.fromPhase(M_PI_2 + M_PI_2/order()),
\* p1.fromPhase(M_PI/order()); phases in units of pi.
ProtoPoles(n) ==
    LET p0 == FromPhase(Add(Q(1, 2), Div(Q(1, 2), Q(n, 1))))
        p1 == FromPhase(Div(F1, Q(n, 1)))
    IN  PoleSeq(p0, p1, NumPoles(n))

\* IIRCheby::ripple
ChebyRipple(s, v) ==
    LET eps == Sqrt(Sub(Pow10(Mul(v, Q(1, 10))), F1))
        v0  == Div(Asinh(Div(F1, eps)), Q(s.mOrder, 1))
        wr  == Sinh(v0)
        wi  == Cosh(v0)
        A0  == Pow10(Mul(Q(-1, 20), v))
    IN  IF Odd(s.mOrder) = 0
        THEN [s EXCEPT !.mRipple = v, !.mWarpR = Mul(wr, A0), !.mWarpI = Mul(wi, A0)]
        ELSE [s EXCEPT !.mRipple = v, !.mWarpR = wr, !.mWarpI = wi]

\* Mutant: IIRCheby does not override onSetOrder.
OnSetOrder_NotOverridden(s, virt) == s

\* onSetOrder: IIRSeries::onSetOrder does nothing, IIRCheby::onSetOrder
\* calls ripple(mRipple).  virt is FALSE while the IIRSeries constructor
\* runs (the call is not yet dispatched to the derived class).
OnSetOrder(s, virt) ==
    IF virt /\ s.family = "Cheby" THEN ChebyRipple(s, s.mRipple) ELSE s

\* Mutant: order() allocates the single-pole section whatever the parity.
SeriesOrder_AlwaysIIR1(s, v, virt) ==
    IF s.mOrder # v
    THEN LET c == ClearMem([s EXCEPT !.mOrder = v])
             t == [c EXCEPT
                     !.mIIR1 = NewArray(1, NewIIR1),
                     !.mIIR2 = NewArray(NumIIR2(v), NewIIR2),
                     !.mPoles = [alloc |-> TRUE, a |-> ProtoPoles(v)]]
         IN  OnSetOrder(t, virt)
    ELSE s

\* Mutant: order() without the test order() != v.
SeriesOrder_NoGuard(s, v, virt) ==
    LET c == ClearMem([s EXCEPT !.mOrder = v])
        t == [c EXCEPT
                !.mIIR1 = IF Odd(v) # 0 THEN NewArray(1, NewIIR1) ELSE Null,
                !.mIIR2 = NewArray(NumIIR2(v), NewIIR2),
                !.mPoles = [alloc |-> TRUE, a |-> ProtoPoles(v)]]
    IN  OnSetOrder(t, virt)

\* IIRSeries::order(uint32_t)
SeriesOrder(s, v, virt) ==
    IF s.mOrder # v
    THEN LET c == ClearMem([s EXCEPT !.mOrder = v])
             t == [c EXCEPT
                     !.mIIR1 = IF Odd(v) # 0 THEN NewArray(1, NewIIR1) ELSE Null,
                     !.mIIR2 = NewArray(NumIIR2(v), NewIIR2),
                     !.mPoles = [alloc |-> TRUE, a |-> ProtoPoles(v)]]
         IN  OnSetOrder(t, virt)
    ELSE s

\* IIRSeries::operator(): the biquads k .. numIIR2 in array order.
RECURSIVE RunIIR2(_, _, _)
RunIIR2(a, k, o0) ==
    IF k > Len(a) THEN [a |-> a, o |-> o0]
    ELSE LET c == IIR2Call(a[k], o0)
         IN  RunIIR2([a EXCEPT ![k] = c.f], k + 1, c.o)

\* IIRSeries::operator(): the object after the call and the value returned.
SeriesCall(s, i0) ==
    LET b == RunIIR2(s.mIIR2.a, 1, i0)
        t == [s EXCEPT !.mIIR2.a = b.a]
    IN  IF Odd(s.mOrder) # 0
        THEN LET c == IIR1Call(s.mIIR1.a[1], b.o)
             IN  [s |-> [t EXCEPT !.mIIR1.a = <<c.f>>], o |-> c.o]
        ELSE [s |-> t, o |-> b.o]

\* IIRSeries::zero
SeriesZero(s) ==
    LET t == [s EXCEPT !.mIIR2.a = [k \in 1 .. Len(s.mIIR2.a) |-> IIR2Zero(s.mIIR2.a[k])]]
    IN  IF Odd(s.mOrder) # 0
        THEN [t EXCEPT !.mIIR1.a = <<IIR1Zero(s.mIIR1.a[1])>>]
        ELSE t

\* The coefficient loops of IIRButter::freq and IIRCheby::freq: pole k
\* scaled by (mr, mi), mapped and converted into biquad k; then the real
\* pole scaled by mr converted into the single-pole section.
WriteCoefs(s, mr, mi) ==
    LET n2 == NumIIR2(s.mOrder)
        t  == [s EXCEPT !.mIIR2.a =
                 [k \in 1 .. n2 |->
                    ConvertLP2(s.mIIR2.a[k],
                               Bilinear(Cx(Mul(s.mPoles.a[k].r, mr),
                                           Mul(s.mPoles.a[k].i, mi))))]]
    IN  IF Odd(s.mOrder) # 0
        THEN [t EXCEPT !.mIIR1.a =
                 <<ConvertLP1(s.mIIR1.a[1], Mul(s.mPoles.a[n2 + 1].r, mr))>>]
        ELSE t

\* IIRButter::freq
ButterFreq(s, f) == LET v == TanPi(f) IN WriteCoefs(s, v, v)

\* IIRCheby::freq
ChebyFreq(s, f) ==
    LET v == TanPi(f) IN WriteCoefs(s, Mul(s.mWarpR, v), Mul(s.mWarpI, v))

\* Mutant: set() without its freq(frq) call.
ChebySet_NoFreq(s, frq, rip) == ChebyRipple(s, rip)

\* IIRCheby::set
ChebySet(s, frq, rip) == ChebyFreq(ChebyRipple(s, rip), frq)

\* IIRSeries::IIRSeries: the members initialised, then order(ord).  The
\* IIRCheby members are not yet constructed (F0 for IIRButter, which has none).
SeriesCtor(fam, ord) ==
    SeriesOrder([family |-> fam, mOrder |-> 0, mPoles |-> Null, mIIR1 |-> Null,
                 mIIR2 |-> Null, mRipple |-> F0, mWarpR |-> F0, mWarpI |-> F0],
                ord, FALSE)

\* Mutant: the IIRButter constructor without its freq(frq) call.
ButterCtor_NoFreq(frq, ord) == SeriesCtor("Butter", ord)

\* IIRButter::IIRButter
ButterCtor(frq, ord) == ButterFreq(SeriesCtor("Butter", ord), frq)

\* IIRCheby::IIRCheby
ChebyCtor(frq, rip, ord) ==
    ChebySet([SeriesCtor("Cheby", ord) EXCEPT !.mRipple = rip, !.mWarpR = F1, !.mWarpI = F1],
             frq, rip)

\* ------------------------------------------------------------ actions
Op(name, v, f, r, x, out, news, dels) ==
    [name |-> name, v |-> v, f |-> f, r |-> r, x |-> x, out |-> out,
     news |-> news, dels |-> dels]

\* The new expressions order(v) executes on s: mIIR1 if odd, mIIR2, mPoles.
OrderNews(s, v) == IF s.mOrder # v THEN Odd(v) + 2 ELSE 0

\* The delete expressions order(v) executes on s (through clearMem).
OrderDeletes(s, v) == IF s.mOrder # v THEN ClearMemDeletes(s) ELSE 0

\* Every value of every section.
SectionValues(s) ==
    UNION {{s.mIIR2.a[k].d1, s.mIIR2.a[k].d2, s.mIIR2.a[k].ci0, s.mIIR2.a[k].ci1,
            s.mIIR2.a[k].ci2, s.mIIR2.a[k].co1, s.mIIR2.a[k].co2}
           : k \in 1 .. Len(s.mIIR2.a)}
    \cup UNION {{s.mIIR1.a[k].d1, s.mIIR1.a[k].ci0, s.mIIR1.a[k].ci1, s.mIIR1.a[k].co1}
                : k \in 1 .. Len(s.mIIR1.a)}

\* The sections' values are within the range the recursion is modelled on.
InRange(s) == \A q \in SectionValues(s) : q[2] <= MaxDen

\* The object's fields are those of the record t.
Is(t) ==
    /\ family = t.family
    /\ mOrder = t.mOrder
    /\ mPoles = t.mPoles
    /\ mIIR1 = t.mIIR1
    /\ mIIR2 = t.mIIR2
    /\ mRipple = t.mRipple
    /\ mWarpR = t.mWarpR
    /\ mWarpI = t.mWarpI

\* IIRButter f(frq, ord);
InitButter ==
    \E frq \in Cutoffs, ord \in Orders :
        /\ Is(ButterCtor(frq, ord))
        /\ lastOp = Op("ctor", ord, frq, F0, F0, F0,
                       OrderNews([mOrder |-> 0], ord), 0)

\* IIRCheby f(frq, rip, ord);
InitCheby ==
    \E frq \in Cutoffs, rip \in Ripples, ord \in Orders :
        /\ Is(ChebyCtor(frq, rip, ord))
        /\ lastOp = Op("ctor", ord, frq, rip, F0, F0,
                       OrderNews([mOrder |-> 0], ord), 0)

Init ==
    /\ InitButter \/ InitCheby
    /\ lastCfg = "ctor"
    /\ nProc = 0
    /\ cfg = CfgIdle /\ aud = AudIdle /\ fault = NoFault /\ overlap = FALSE

\* f.order(v)
Order(v) ==
    /\ Become(SeriesOrder(Self, v, TRUE))
    /\ lastOp' = Op("order", v, F0, F0, F0, F0,
                    OrderNews(Self, v), OrderDeletes(Self, v))
    /\ lastCfg' = IF mOrder # v THEN "order" ELSE lastCfg
    /\ nProc' = IF mOrder # v THEN 0 ELSE nProc
    /\ UNCHANGED conc

\* f.freq(frq) on an IIRButter
FreqButter(frq) ==
    /\ family = "Butter"
    /\ Become(ButterFreq(Self, frq))
    /\ lastOp' = Op("freq", 0, frq, F0, F0, F0, 0, 0)
    /\ lastCfg' = "freq"
    /\ UNCHANGED <<nProc, conc>>

\* f.freq(frq) on an IIRCheby
FreqCheby(frq) ==
    /\ family = "Cheby"
    /\ Become(ChebyFreq(Self, frq))
    /\ lastOp' = Op("freq", 0, frq, F0, F0, F0, 0, 0)
    /\ lastCfg' = "freq"
    /\ UNCHANGED <<nProc, conc>>

\* f.set(frq, rip) on an IIRCheby
SetCheby(frq, rip) ==
    /\ family = "Cheby"
    /\ Become(ChebySet(Self, frq, rip))
    /\ lastOp' = Op("set", 0, frq, rip, F0, F0, 0, 0)
    /\ lastCfg' = "set"
    /\ UNCHANGED <<nProc, conc>>

\* f(x)
Process(x) ==
    /\ nProc < MaxProc
    /\ InRange(Self)
    /\ LET c == SeriesCall(Self, x)
       IN  /\ Become(c.s)
           /\ lastOp' = Op("process", 0, F0, F0, x, c.o, 0, 0)
    /\ nProc' = nProc + 1
    /\ UNCHANGED <<lastCfg, conc>>

\* f.zero()
ZeroDelays ==
    /\ Become(SeriesZero(Self))
    /\ lastOp' = Op("zero", 0, F0, F0, F0, F0, 0, 0)
    /\ nProc' = 0
    /\ UNCHANGED <<lastCfg, conc>>

Next ==
    \/ \E v \in Orders : Order(v)
    \/ \E frq \in Cutoffs : FreqButter(frq)
    \/ \E frq \in Cutoffs : FreqCheby(frq)
    \/ \E frq \in Cutoffs, rip \in Ripples : SetCheby(frq, rip)
    \/ \E x \in Samples : Process(x)
    \/ ZeroDelays

Spec == Init /\ [][Next]_vars

\* ripple(rip) called on its own: the method is protected, so the caller is
\* a class derived from IIRCheby.
RippleCheby(rip) ==
    /\ family = "Cheby"
    /\ Become(ChebyRipple(Self, rip))
    /\ lastOp' = Op("ripple", 0, F0, rip, F0, F0, 0, 0)
    /\ UNCHANGED <<lastCfg, nProc, conc>>

\* The configuration calls open to a class derived from IIRCheby or
\* IIRButter: order, freq, set and ripple (operator() and zero() write
\* delay registers only and are left to Spec).
NextDerived ==
    \/ \E v \in Orders : Order(v)
    \/ \E frq \in Cutoffs : FreqButter(frq)
    \/ \E frq \in Cutoffs : FreqCheby(frq)
    \/ \E frq \in Cutoffs, rip \in Ripples : SetCheby(frq, rip)
    \/ \E rip \in Ripples : RippleCheby(rip)

SpecDerived == Init /\ [][NextDerived]_vars

\* ------------------------------------------- two execution contexts
\* order(v) and operator() each run in a context of their own, one source
\* line at a time; the class has no lock.  A line is one step.

\* The line order() executes after line pc.
NextLine(pc) ==
    CASE pc = "l209" -> "l210"
      [] pc = "l210" -> "l211"
      [] pc = "l211" -> "l161"
      [] pc = "l161" -> "l162"
      [] pc = "l162" -> "l163"
      [] pc = "l163" -> "l177"
      [] pc = "l177" -> "idle"

\* Mutant: line 161 written if(!odd()).
OrderLine_IIR1WhenEven(s, pc) ==
    CASE pc = "l209" -> [s EXCEPT !.mIIR1 = Null]
      [] pc = "l210" -> [s EXCEPT !.mIIR2 = Null]
      [] pc = "l211" -> [s EXCEPT !.mPoles = Null]
      [] pc = "l161" -> IF Odd(s.mOrder) = 0
                        THEN [s EXCEPT !.mIIR1 = NewArray(1, NewIIR1)] ELSE s
      [] pc = "l162" -> [s EXCEPT !.mIIR2 = NewArray(NumIIR2(s.mOrder), NewIIR2)]
      [] pc = "l163" -> [s EXCEPT !.mPoles = [alloc |-> TRUE, a |-> ProtoPoles(s.mOrder)]]
      [] pc = "l177" -> OnSetOrder(s, TRUE)

\* The object after order() has executed line pc on s: clearMem's three
\* lines (209-211), the three allocations (161, 162, 163 with the pole
\* loop to 176) and onSetOrder (177).
OrderLine(s, pc) ==
    CASE pc = "l209" -> [s EXCEPT !.mIIR1 = Null]
      [] pc = "l210" -> [s EXCEPT !.mIIR2 = Null]
      [] pc = "l211" -> [s EXCEPT !.mPoles = Null]
      [] pc = "l161" -> IF Odd(s.mOrder) # 0
                        THEN [s EXCEPT !.mIIR1 = NewArray(1, NewIIR1)] ELSE s
      [] pc = "l162" -> [s EXCEPT !.mIIR2 = NewArray(NumIIR2(s.mOrder), NewIIR2)]
      [] pc = "l163" -> [s EXCEPT !.mPoles = [alloc |-> TRUE, a |-> ProtoPoles(s.mOrder)]]
      [] pc = "l177" -> OnSetOrder(s, TRUE)

\* The delete and new expressions line pc executes on s.
LineDeletes(s, pc) ==
    IF \/ pc = "l209" /\ s.mIIR1.alloc
       \/ pc = "l210" /\ s.mIIR2.alloc
       \/ pc = "l211" /\ s.mPoles.alloc
    THEN 1 ELSE 0

LineNews(s, pc) ==
    IF \/ pc = "l161" /\ Odd(s.mOrder) # 0
       \/ pc \in {"l162", "l163"}
    THEN 1 ELSE 0

\* order(v), lines 157-158: the test and mOrder = v.
OrderBegin(v) ==
    /\ cfg.pc = "idle" /\ aud.pc # "crashed"
    /\ IF mOrder # v
       THEN /\ mOrder' = v
            /\ cfg' = [pc |-> "l209", v |-> v, news |-> 0, dels |-> 0]
            /\ overlap' = (overlap \/ aud.pc # "idle")
            /\ UNCHANGED lastOp
       ELSE /\ lastOp' = Op("order", v, F0, F0, F0, F0, 0, 0)
            /\ UNCHANGED <<mOrder, cfg, overlap>>
    /\ UNCHANGED <<family, mPoles, mIIR1, mIIR2, mRipple, mWarpR, mWarpI,
                   lastCfg, nProc, aud, fault>>

\* order(v), one of the lines 160-177.
OrderStep ==
    /\ cfg.pc # "idle" /\ aud.pc # "crashed"
    /\ Become(OrderLine(Self, cfg.pc))
    /\ cfg' = IF cfg.pc = "l177" THEN CfgIdle
              ELSE [cfg EXCEPT !.pc = NextLine(cfg.pc),
                               !.news = @ + LineNews(Self, cfg.pc),
                               !.dels = @ + LineDeletes(Self, cfg.pc)]
    /\ overlap' = (overlap \/ aud.pc # "idle")
    /\ IF cfg.pc = "l177"
       THEN /\ lastOp' = Op("order", cfg.v, F0, F0, F0, F0, cfg.news, cfg.dels)
            /\ lastCfg' = "order"
            /\ nProc' = 0
       ELSE UNCHANGED <<lastOp, lastCfg, nProc>>
    /\ UNCHANGED <<aud, fault>>

\* operator()(x), line 184: o0 = i0, and the loop's i = 0.
ProcBegin(x) ==
    /\ aud.pc = "idle"
    /\ nProc < MaxProc
    /\ InRange(Self)
    /\ aud' = [pc |-> "l185", i |-> 0, o0 |-> x, x |-> x]
    /\ fault' = NoFault
    /\ overlap' = (cfg.pc # "idle")
    /\ nProc' = nProc + 1
    /\ UNCHANGED <<fields, lastOp, lastCfg, cfg>>

\* An access to a section that is not there (null pointer, or an index
\* past the array): undefined behaviour.  The call is killed, or it reads
\* some value and goes on to line next.
BadAccess(what, next) ==
    /\ fault' = [what |-> what, i |-> aud.i, pc |-> cfg.pc, order |-> mOrder]
    /\ \/ aud' = [aud EXCEPT !.pc = "crashed"]
       \/ \E g \in Samples :
             aud' = [aud EXCEPT !.pc = next, !.o0 = g,
                                !.i = IF next = "l185" THEN @ + 1 ELSE @]
    /\ UNCHANGED fields

\* operator(), line 185: the test i < numIIR2() and o0 = mIIR2[i](o0); ++i.
ProcLoop ==
    /\ aud.pc = "l185"
    /\ IF aud.i < NumIIR2(mOrder)
       THEN IF mIIR2.alloc /\ aud.i + 1 <= Len(mIIR2.a)
            THEN LET c == IIR2Call(mIIR2.a[aud.i + 1], aud.o0)
                 IN  /\ mIIR2' = [mIIR2 EXCEPT !.a[aud.i + 1] = c.f]
                     /\ aud' = [aud EXCEPT !.i = @ + 1, !.o0 = c.o]
                     /\ UNCHANGED <<family, mOrder, mPoles, mIIR1, mRipple,
                                    mWarpR, mWarpI, fault>>
            ELSE BadAccess("mIIR2", "l185")
       ELSE /\ aud' = [aud EXCEPT !.pc = "l186"]
            /\ UNCHANGED <<fields, fault>>
    /\ overlap' = (overlap \/ cfg.pc # "idle")
    /\ UNCHANGED <<lastOp, lastCfg, nProc, cfg>>

\* operator(), line 186: if(odd()) o0 = (*mIIR1)(o0).
ProcOdd ==
    /\ aud.pc = "l186"
    /\ IF Odd(mOrder) # 0
       THEN IF mIIR1.alloc
            THEN LET c == IIR1Call(mIIR1.a[1], aud.o0)
                 IN  /\ mIIR1' = [mIIR1 EXCEPT !.a = <<c.f>>]
                     /\ aud' = [aud EXCEPT !.pc = "l187", !.o0 = c.o]
                     /\ UNCHANGED <<family, mOrder, mPoles, mIIR2, mRipple,
                                    mWarpR, mWarpI, fault>>
            ELSE BadAccess("mIIR1", "l187")
       ELSE /\ aud' = [aud EXCEPT !.pc = "l187"]
            /\ UNCHANGED <<fields, fault>>
    /\ overlap' = (overlap \/ cfg.pc # "idle")
    /\ UNCHANGED <<lastOp, lastCfg, nProc, cfg>>

\* operator(), line 187: return o0.
ProcRet ==
    /\ aud.pc = "l187"
    /\ aud' = AudIdle
    /\ lastOp' = Op("process", 0, F0, F0, aud.x, aud.o0, 0, 0)
    /\ UNCHANGED <<fields, lastCfg, nProc, cfg, fault, overlap>>

NextConc ==
    \/ \E v \in Orders : OrderBegin(v)
    \/ OrderStep
    \/ \E x \in Samples : ProcBegin(x)
    \/ ProcLoop
    \/ ProcOdd
    \/ ProcRet

SpecConc == Init /\ [][NextConc]_vars

\* ------------------------------------------------------------- claims
\* The biquads and the single-pole section (if any) of the cascade.
Biquads == {mIIR2.a[k] : k \in 1 .. Len(mIIR2.a)}

Singles == {mIIR1.a[k] : k \in 1 .. Len(mIIR1.a)}

\* C1: whenever the order n is at least 1, the cascade holds exactly n/2
\* allocated biquads, one allocated single-pole section iff n is odd (none
\* when n is even), and an allocated pole array of exactly (n+1)/2 poles.
C1_Structure ==
    mOrder >= 1 =>
        /\ mIIR2.alloc /\ Len(mIIR2.a) = mOrder \div 2
        /\ mIIR1.alloc <=> (mOrder % 2 = 1)
        /\ Len(mIIR1.a) = mOrder % 2
        /\ mPoles.alloc /\ Len(mPoles.a) = (mOrder + 1) \div 2

\* An order change to an odd order after samples were processed and the
\* cutoff was set.
C1_Witness ==
    /\ lastOp.name = "order" /\ lastOp.dels = 3 /\ lastOp.news = 3
    /\ mOrder = 3 /\ Len(mIIR2.a) = 1 /\ Len(mIIR1.a) = 1 /\ Len(mPoles.a) = 2

\* C2: order(n) with n the current order changes no field of the object
\* (order, pole array, coefficients, delay registers, ripple and warp
\* factors) and executes no new and no delete.
C2_SameOrderNoOp ==
    [][(lastOp'.name = "order" /\ lastOp'.v = mOrder) =>
          (UNCHANGED fields /\ lastOp'.news = 0 /\ lastOp'.dels = 0)]_vars

\* order(3) on a configured order-3 cascade with non-zero delays.
C2_Witness ==
    /\ lastOp.name = "order" /\ lastOp.v = 3 /\ lastOp.news = 0
    /\ mOrder = 3 /\ lastCfg # "order"
    /\ mIIR1.a[1].d1 # F0 /\ mIIR2.a[1].d2 # F0 /\ mIIR2.a[1].co2 # F0

\* A section still holds the coefficients its constructor gave it.
DefaultCoefs2(b) ==
    b.ci0 = F0 /\ b.ci1 = F0 /\ b.ci2 = F0 /\ b.co1 = F0 /\ b.co2 = F0

DefaultCoefs1(f) == f.ci0 = F0 /\ f.ci1 = F0 /\ f.co1 = F0

SomeDefaultCoefs ==
    (\E b \in Biquads : DefaultCoefs2(b)) \/ (\E f \in Singles : DefaultCoefs1(f))

\* C3 as claimed: no operator() call runs on a section that still holds
\* the default all-zero coefficients (operator() leaves the coefficients
\* it read in place).
C3_NeverReadsDefault == lastOp.name = "process" => ~SomeDefaultCoefs

\* C3 as amended: a section holds default coefficients only between an
\* order change and the next freq/set call; the constructors and freq/set
\* leave none.
C3_DefaultOnlyAfterOrder == SomeDefaultCoefs => lastCfg = "order"

\* operator() has run on default coefficients after an order change.
C3_Witness ==
    /\ lastOp.name = "process" /\ lastCfg = "order" /\ SomeDefaultCoefs
    /\ lastOp.x = F1 /\ lastOp.out = F0

\* Every delay register of the cascade is zero.
DelaysZero(b2, b1) ==
    /\ \A k \in 1 .. Len(b2) : b2[k].d1 = F0 /\ b2[k].d2 = F0
    /\ \A k \in 1 .. Len(b1) : b1[k].d1 = F0

\* C4 as claimed: right after construction and right after zero() every
\* delay register is zero, and operator() on input 0 in that state
\* returns exactly 0 and leaves every delay register zero.
C4_ZeroInZeroOut ==
    lastOp.name \in {"ctor", "zero"} =>
        /\ DelaysZero(mIIR2.a, mIIR1.a)
        /\ LET c == SeriesCall(Self, F0)
           IN  EqF(c.o, F0) /\ DelaysZero(c.s.mIIR2.a, c.s.mIIR1.a)

\* The first half of C4 alone: the delay registers are zero right after
\* construction and right after zero().
C4_DelaysZeroAfterReset ==
    lastOp.name \in {"ctor", "zero"} => DelaysZero(mIIR2.a, mIIR1.a)

\* The recursions as C5 states them: d0 and y of one section on input x.
C5_Biquad(b, x) ==
    LET d0 == Sub(Sub(x, Mul(b.d1, b.co1)), Mul(b.d2, b.co2))
    IN  [d0 |-> d0, y |-> Add(Add(Mul(d0, b.ci0), Mul(b.d1, b.ci1)), Mul(b.d2, b.ci2))]

C5_Single(f, x) ==
    LET d0 == Sub(x, Mul(f.d1, f.co1))
    IN  [d0 |-> d0, y |-> Add(Mul(d0, f.ci0), Mul(f.d1, f.ci1))]

\* The input of biquad k (k = number of biquads + 1: the output of the
\* last biquad) when the cascade a is fed x.
RECURSIVE C5_In(_, _, _)
C5_In(a, k, x) ==
    IF k = 1 THEN x ELSE C5_Biquad(a[k - 1], C5_In(a, k - 1, x)).y

UnityDC1(f) == EqF(Add(f.ci0, f.ci1), Add(F1, f.co1))

UnityDC2(b) == EqF(Add(Add(b.ci0, b.ci1), b.ci2), Add(Add(F1, b.co1), b.co2))

\* The section in the state in which it outputs c on the constant input c
\* (d1 = d2 = c / (1 + co1 + co2)) stays in that state and outputs c.
FixedPoint1(f, c) ==
    LET g == Add(F1, f.co1)
        e == [f EXCEPT !.d1 = Div(c, g)]
    IN  (IsFinite(g) /\ g # F0) => IIR1Call(e, c) = [f |-> e, o |-> c]

FixedPoint2(b, c) ==
    LET g == Add(Add(F1, b.co1), b.co2)
        e == [b EXCEPT !.d1 = Div(c, g), !.d2 = Div(c, g)]
    IN  (IsFinite(g) /\ g # F0) => IIR2Call(e, c) = [f |-> e, o |-> c]

\* C6 as claimed: every coefficient set the converter has written (after
\* a constructor, freq or set) satisfies ci0 + ci1 = 1 + co1, resp.
\* ci0 + ci1 + ci2 = 1 + co1 + co2, and the state in which a section
\* outputs the constant input is a fixed point of its recursion.
C6_UnityDCGain ==
    lastCfg \in {"ctor", "freq", "set"} =>
        /\ \A f \in Singles : UnityDC1(f) /\ \A c \in Samples : FixedPoint1(f, c)
        /\ \A b \in Biquads : UnityDC2(b) /\ \A c \in Samples : FixedPoint2(b, c)

\* C6 restricted to coefficient sets without NaN.
C6_UnityDCGainNoNaN ==
    lastCfg \in {"ctor", "freq", "set"} =>
        /\ \A f \in Singles :
              ~IsNaN(f.co1) => (UnityDC1(f) /\ \A c \in Samples : FixedPoint1(f, c))
        /\ \A b \in Biquads :
              ~IsNaN(b.co1) => (UnityDC2(b) /\ \A c \in Samples : FixedPoint2(b, c))

\* The analog pole freq(f) passes to bilinear for biquad k in this state.
PassedPole(k, f) ==
    LET v  == TanPi(f)
        mr == IF family = "Cheby" THEN Mul(mWarpR, v) ELSE v
        mi == IF family = "Cheby" THEN Mul(mWarpI, v) ELSE v
    IN  Cx(Mul(mPoles.a[k].r, mr), Mul(mPoles.a[k].i, mi))

\* A finite pole with real part < 0.
LeftHalfPlane(p) == IsFinite(p.r) /\ IsFinite(p.i) /\ LtF(p.r, F0)

C8_OrderAtLeastOne ==
    /\ mOrder >= 1
    /\ (lastOp.name \in {"ctor", "order"} /\ lastOp.v = 0) =>
           (mOrder = 1 /\ Len(mIIR1.a) = 1 /\ Len(mIIR2.a) = 0 /\ Len(mPoles.a) = 1)

\* The coefficients of an in-range cutoff and ripple: the pre-warp and the
\* warp factors are positive and finite, so every scaled pole is finite
\* with negative real part; then the single-pole section gets
\* -1 < co1 < 1, ci0 > 0 and a biquad gets 0 < co2 < 1, ci0 > 0.
InRangeCoefs1(f) ==
    /\ IsFinite(f.co1) /\ IsFinite(f.ci0)
    /\ LtF(Q(-1, 1), f.co1) /\ LtF(f.co1, F1) /\ LtF(F0, f.ci0)

InRangeCoefs2(b) ==
    /\ IsFinite(b.co1) /\ IsFinite(b.co2) /\ IsFinite(b.ci0)
    /\ LtF(F0, b.co2) /\ LtF(b.co2, F1) /\ LtF(F0, b.ci0)

\* C9 as claimed: whatever cutoff and ripple the constructors, freq and
\* set were given, the coefficients written are those of a cutoff in
\* (0, 0.5) and a ripple > 0.
C9_SettersSanitise ==
    lastCfg \in {"ctor", "freq", "set"} =>
        /\ \A f \in Singles : InRangeCoefs1(f)
        /\ \A b \in Biquads : InRangeCoefs2(b)

\* C10: freq and set change no order, no pole, no allocation and no delay
\* register; freq changes no ripple or warp factor either.
C10_CutoffFrame ==
    [][lastOp'.name \in {"freq", "set"} =>
         /\ UNCHANGED <<family, mOrder, mPoles>>
         /\ mIIR1'.alloc = mIIR1.alloc /\ Len(mIIR1'.a) = Len(mIIR1.a)
         /\ mIIR2'.alloc = mIIR2.alloc /\ Len(mIIR2'.a) = Len(mIIR2.a)
         /\ \A k \in 1 .. Len(mIIR2.a) :
               mIIR2'.a[k].d1 = mIIR2.a[k].d1 /\ mIIR2'.a[k].d2 = mIIR2.a[k].d2
         /\ \A k \in 1 .. Len(mIIR1.a) : mIIR1'.a[k].d1 = mIIR1.a[k].d1
         /\ lastOp'.news = 0 /\ lastOp'.dels = 0
         /\ lastOp'.name = "freq" => UNCHANGED <<mRipple, mWarpR, mWarpI>>]_vars

\* set(f, r) on an odd-order Chebyshev cascade whose delays are non-zero.
C10_Witness ==
    /\ lastOp.name = "set" /\ family = "Cheby" /\ mOrder = 3
    /\ mIIR1.a[1].d1 # F0 /\ mIIR2.a[1].d1 # F0
    /\ InRangeCoefs1(mIIR1.a[1]) /\ InRangeCoefs2(mIIR2.a[1])

\* The warp factors of order n and ripple r dB: eps = sqrt(10^(r/10) - 1),
\* v0 = asinh(1/eps)/n, (sinh v0, cosh v0), both times A0 = 10^(-0.05 r)
\* iff n is even.
WarpFor(n, r) ==
    LET eps == Sqrt(Sub(Pow10(Div(r, Q(10, 1))), F1))
        v0  == Div(Asinh(Recip(eps)), Q(n, 1))
        A0  == IF n % 2 = 0 THEN Pow10(Mul(Q(-1, 20), r)) ELSE F1
    IN  [r |-> IF n % 2 = 0 THEN Mul(Sinh(v0), A0) ELSE Sinh(v0),
         i |-> IF n % 2 = 0 THEN Mul(Cosh(v0), A0) ELSE Cosh(v0)]

\* The sections of this state with the coefficients of cutoff f under the
\* warp factors w (delay registers as they are).
CoefsFor(w, f) ==
    LET v == TanPi(f)
        P(k) == Cx(Mul(mPoles.a[k].r, Mul(w.r, v)), Mul(mPoles.a[k].i, Mul(w.i, v)))
    IN  [b2 |-> [k \in 1 .. Len(mIIR2.a) |-> ConvertLP2(mIIR2.a[k], Bilinear(P(k)))],
         b1 |-> [k \in 1 .. Len(mIIR1.a) |->
                    ConvertLP1(mIIR1.a[k], P(Len(mIIR2.a) + 1).r)]]

RECURSIVE Outputs(_, _)
Outputs(s, xs) ==
    IF xs = <<>> THEN <<>>
    ELSE LET c == SeriesCall(s, Head(xs)) IN <<c.o>> \o Outputs(c.s, Tail(xs))

\* C12: a Butterworth cascade of order 1 just configured with cutoff 0.25
\* (by its constructor or by freq) has the pole (-1, 0), pre-warp
\* tan(pi/4) = 1 and the single-pole coefficients co1 = 0, ci0 = ci1 = 1/2;
\* from zero delays the inputs 1, 0, 0, 0 return 1/2, 1/2, 0, 0.
C12_ScenarioA ==
    (family = "Butter" /\ mOrder = 1 /\ lastOp.name \in {"ctor", "freq"}
       /\ lastOp.f = Q(1, 4)) =>
        /\ mPoles.a = <<Cx(Q(-1, 1), F0)>>
        /\ TanPi(lastOp.f) = F1
        /\ Len(mIIR2.a) = 0 /\ Len(mIIR1.a) = 1
        /\ mIIR1.a[1].co1 = F0
        /\ mIIR1.a[1].ci0 = Q(1, 2) /\ mIIR1.a[1].ci1 = Q(1, 2)
        /\ Outputs(SeriesZero(Self), <<F1, F0, F0, F0>>) = <<Q(1, 2), Q(1, 2), F0, F0>>

\* The second call of the scenario has run: constructed with order 1 and
\* cutoff 0.25 coefficients, fed 1 and then 0, it returned 1/2 for the 0.
C12_Witness ==
    /\ family = "Butter" /\ mOrder = 1 /\ lastCfg = "ctor"
    /\ mIIR1.a[1].co1 = F0 /\ mIIR1.a[1].ci0 = Q(1, 2) /\ mIIR1.a[1].ci1 = Q(1, 2)
    /\ lastOp.name = "process" /\ nProc = 2
    /\ lastOp.x = F0 /\ lastOp.out = Q(1, 2) /\ mIIR1.a[1].d1 = F0

\* The lines of order(v) run one after the other on s.
RECURSIVE RunLines(_, _)
RunLines(s, pc) ==
    IF pc = "idle" THEN s ELSE RunLines(OrderLine(s, pc), NextLine(pc))

\* order(v) run line by line without interruption is order(v).
OrderLinesAreOrder ==
    \A v \in Orders :
        mOrder # v =>
            RunLines([Self EXCEPT !.mOrder = v], "l209") = SeriesOrder(Self, v, TRUE)

\* C13: (1) an operator() call during which no step of order() ran finds
\* every section it accesses (calls that run to completion one after the
\* other never access a missing section): whenever no order() call is in
\* progress, every section and pole the current order indexes is
\* allocated; and order() has stored the new order whenever it is between
\* its lines.
C13_SerializedSafe ==
    /\ fault # NoFault => overlap
    /\ cfg.pc = "idle" =>
           /\ NumIIR2(mOrder) > 0 => (mIIR2.alloc /\ Len(mIIR2.a) = NumIIR2(mOrder))
           /\ Odd(mOrder) # 0 => (mIIR1.alloc /\ Len(mIIR1.a) = 1)
           /\ NumPoles(mOrder) > 0 => (mPoles.alloc /\ Len(mPoles.a) = NumPoles(mOrder))
    /\ cfg.pc # "idle" => mOrder = cfg.v

\* C13: (2) operator() interleaved with order(3): order() has stored the
\* order 3 and freed the arrays but not yet reallocated them (it is at
\* line 161 or 162) when operator() tests 0 < numIIR2() = 1 and accesses
\* mIIR2[0] through the null pointer.
C13_Witness ==
    /\ fault.what = "mIIR2" /\ fault.i = 0 /\ fault.order = 3
    /\ fault.pc \in {"l161", "l162"}
    /\ cfg.pc = fault.pc /\ cfg.v = 3 /\ mOrder = 3
    /\ ~mIIR2.alloc /\ ~mIIR1.alloc /\ ~mPoles.alloc
    /\ overlap

\* C14: a Chebyshev filter's stored warp factors are, after every call,
\* those derived from the current order and the stored ripple (A0 applied
\* iff the order is even), the stored ripple is the last one given to the
\* constructor or set, and so freq(f) writes what set(f, r) with that
\* ripple r would write: in particular right after an order change.
C14_WarpFollowsOrderAndRipple ==
    family = "Cheby" =>
        /\ mWarpR = WarpFor(mOrder, mRipple).r
        /\ mWarpI = WarpFor(mOrder, mRipple).i
        /\ lastOp.name \in {"ctor", "set"} => mRipple = lastOp.r
        /\ \A f \in Cutoffs :
              /\ ChebyFreq(Self, f) = ChebySet(Self, f, mRipple)
              /\ ChebyFreq(Self, f).mIIR2.a = CoefsFor(WarpFor(mOrder, mRipple), f).b2
              /\ ChebyFreq(Self, f).mIIR1.a = CoefsFor(WarpFor(mOrder, mRipple), f).b1

\* order(2) on an order-3 Chebyshev filter of ripple 1 dB: the warp factors
\* are now those of order 2 (with A0), no longer those of order 3.
C14_Witness ==
    /\ family = "Cheby" /\ lastOp.name = "order" /\ lastOp.v = 2
    /\ lastOp.dels = 3 /\ lastOp.news = 2 /\ mOrder = 2 /\ mRipple = F1
    /\ mWarpR = WarpFor(2, F1).r /\ mWarpI = WarpFor(2, F1).i
    /\ mWarpR # WarpFor(3, F1).r
    /\ mWarpR = Mul(Sinh(Div(Asinh(Recip(Sqrt(Sub(Pow10(Q(1, 10)), F1)))), Q(2, 1))),
                    Pow10(Q(-1, 20)))
    /\ IsFinite(mWarpR) /\ LtF(F0, mWarpR)

====
